---- MODULE Spec2Model ----
(***************************************************************************)
(* Chatspot browser clients: the symmetric channel codec and the session   *)
(* handlers of the three client variants found in the repository.          *)
(*   "sodium" : src/unnamed/part_000 (libsodium secretbox, per-room key)   *)
(*   "upload" : src/static/app.js lines 1-214 (AES-GCM, file upload)       *)
(*   "dedupe" : src/static/app.js lines 216-503 (AES-GCM, optimistic send) *)
(* Strings are sequences of UTF-16 code units, byte arrays sequences of    *)
(* 0..255.  A function that can throw returns [ok, val].                   *)
(***************************************************************************)
EXTENDS Integers, Sequences, FiniteSets, TLC

\* ------------------------------------------------------------------------
\* Results of operations that may throw
Ok(v) == [ok |-> TRUE, val |-> v]

Err == [ok |-> FALSE, val |-> <<>>]

\* The JavaScript value undefined where a string is expected (String(undefined)
\* is the 9-character text "undefined").
Undefined == <<117, 110, 100, 101, 102, 105, 110, 101, 100>>

\* ------------------------------------------------------------------------
\* TextEncoder / TextDecoder (UTF-8), as used by enc.encode and dec.decode

IsHighSurrogate(c) == c >= 55296 /\ c <= 56319

IsLowSurrogate(c) == c >= 56320 /\ c <= 57343

IsContinuation(b) == b >= 128 /\ b <= 191

\* UTF-8 bytes of one Unicode scalar value
Utf8Bytes(cp) ==
  IF cp < 128 THEN <<cp>>
  ELSE IF cp < 2048 THEN <<192 + (cp \div 64), 128 + (cp % 64)>>
  ELSE IF cp < 65536 THEN
    <<224 + (cp \div 4096), 128 + ((cp \div 64) % 64), 128 + (cp % 64)>>
  ELSE <<240 + (cp \div 262144), 128 + ((cp \div 4096) % 64),
         128 + ((cp \div 64) % 64), 128 + (cp % 64)>>

\* enc.encode(s): the string is converted to scalar values first, so a
\* surrogate pair becomes one supplementary code point and a lone surrogate
\* becomes U+FFFD.
RECURSIVE TextEncode(_)
TextEncode(s) ==
  IF s = <<>> THEN <<>>
  ELSE IF IsHighSurrogate(s[1]) /\ Len(s) >= 2 /\ IsLowSurrogate(s[2]) THEN
    Utf8Bytes(65536 + (s[1] - 55296) * 1024 + (s[2] - 56320))
      \o TextEncode(Tail(Tail(s)))
  ELSE IF IsHighSurrogate(s[1]) \/ IsLowSurrogate(s[1]) THEN
    Utf8Bytes(65533) \o TextEncode(Tail(s))
  ELSE Utf8Bytes(s[1]) \o TextEncode(Tail(s))

\* Code units of one scalar value
CodeUnits(cp) ==
  IF cp < 65536 THEN <<cp>>
  ELSE <<55296 + ((cp - 65536) \div 1024), 56320 + ((cp - 65536) % 1024)>>

\* UTF-8 decoding with replacement (fatal: false): an ill-formed byte yields
\* U+FFFD and decoding resumes at the next byte.
RECURSIVE Utf8Decode(_)
Utf8Decode(b) ==
  IF b = <<>> THEN <<>>
  ELSE IF b[1] < 128 THEN <<b[1]>> \o Utf8Decode(Tail(b))
  ELSE IF b[1] >= 194 /\ b[1] <= 223 /\ Len(b) >= 2 /\ IsContinuation(b[2]) THEN
    CodeUnits((b[1] - 192) * 64 + (b[2] - 128)) \o Utf8Decode(SubSeq(b, 3, Len(b)))
  ELSE IF b[1] >= 224 /\ b[1] <= 239 /\ Len(b) >= 3
          /\ IsContinuation(b[2]) /\ IsContinuation(b[3])
          /\ (b[1] = 224 => b[2] >= 160) /\ (b[1] = 237 => b[2] <= 159) THEN
    CodeUnits((b[1] - 224) * 4096 + (b[2] - 128) * 64 + (b[3] - 128))
      \o Utf8Decode(SubSeq(b, 4, Len(b)))
  ELSE IF b[1] >= 240 /\ b[1] <= 244 /\ Len(b) >= 4
          /\ IsContinuation(b[2]) /\ IsContinuation(b[3]) /\ IsContinuation(b[4])
          /\ (b[1] = 240 => b[2] >= 144) /\ (b[1] = 244 => b[2] <= 143) THEN
    CodeUnits((b[1] - 240) * 262144 + (b[2] - 128) * 4096
              + (b[3] - 128) * 64 + (b[4] - 128))
      \o Utf8Decode(SubSeq(b, 5, Len(b)))
  ELSE <<65533>> \o Utf8Decode(Tail(b))

\* new TextDecoder().decode(b): ignoreBOM is false by default, so a leading
\* EF BB BF is consumed and does not appear in the result.
TextDecode(b) ==
  IF Len(b) >= 3 /\ b[1] = 239 /\ b[2] = 187 /\ b[3] = 191
  THEN Utf8Decode(SubSeq(b, 4, Len(b)))
  ELSE Utf8Decode(b)

\* ------------------------------------------------------------------------
\* base64 (btoa / atob: standard alphabet with padding)

\* Character code of sextet v in the standard alphabet
B64Char(v) ==
  IF v < 26 THEN 65 + v
  ELSE IF v < 52 THEN 97 + (v - 26)
  ELSE IF v < 62 THEN 48 + (v - 52)
  ELSE IF v = 62 THEN 43 ELSE 47

\* Sextet of a character code, -1 when the character is outside the alphabet
B64Val(c) ==
  IF c >= 65 /\ c <= 90 THEN c - 65
  ELSE IF c >= 97 /\ c <= 122 THEN c - 97 + 26
  ELSE IF c >= 48 /\ c <= 57 THEN c - 48 + 52
  ELSE IF c = 43 THEN 62
  ELSE IF c = 47 THEN 63
  ELSE -1

Pad == 61

\* the byte at 0-based index i of b, 0 beyond its end
ByteAt(b, i) == IF i < Len(b) THEN b[i + 1] ELSE 0

\* the sextet at 0-based index i of the base64 reading of b
SextetAt(b, i) ==
  LET g == 3 * (i \div 4) IN
  CASE i % 4 = 0 -> ByteAt(b, g) \div 4
    [] i % 4 = 1 -> (ByteAt(b, g) % 4) * 16 + (ByteAt(b, g + 1) \div 16)
    [] i % 4 = 2 -> (ByteAt(b, g + 1) % 16) * 4 + (ByteAt(b, g + 2) \div 64)
    [] OTHER -> ByteAt(b, g + 2) % 64

\* number of sextets that carry bits of b
SextetCount(b) == (Len(b) * 4 + 2) \div 3

Btoa(b) ==
  [i \in 1..(4 * ((Len(b) + 2) \div 3)) |->
     IF i <= SextetCount(b) THEN B64Char(SextetAt(b, i - 1)) ELSE Pad]

\* Bytes of a run of sextets (no padding); trailing bits are discarded
SextetsToBytes(v) ==
  [j \in 1..((Len(v) * 3) \div 4) |->
     LET g == 4 * ((j - 1) \div 3) IN
     CASE (j - 1) % 3 = 0 -> v[g + 1] * 4 + (v[g + 2] \div 16)
       [] (j - 1) % 3 = 1 -> (v[g + 2] % 16) * 16 + (v[g + 3] \div 4)
       [] OTHER -> (v[g + 3] % 4) * 64 + v[g + 4]]

\* atob's removal of at most two trailing '=' when the length is a multiple of 4
StripPad(s) ==
  IF Len(s) % 4 = 0 /\ Len(s) >= 1 /\ s[Len(s)] = Pad THEN
    IF Len(s) >= 2 /\ s[Len(s) - 1] = Pad
    THEN SubSeq(s, 1, Len(s) - 2)
    ELSE SubSeq(s, 1, Len(s) - 1)
  ELSE s

\* atob(s): throws InvalidCharacterError on a length of 1 mod 4 or on a
\* character outside the alphabet
Atob(s) ==
  LET t == StripPad(s) IN
  IF Len(t) % 4 = 1 \/ (\E i \in 1..Len(t) : B64Val(t[i]) = -1) THEN Err
  ELSE Ok(SextetsToBytes([i \in 1..Len(t) |-> B64Val(t[i])]))

\* bufToBase64(buf) = btoa(String.fromCharCode(...new Uint8Array(buf)))
bufToBase64(buf) == Btoa(buf)

\* base64ToBuf(s): atob, then one byte per character
base64ToBuf(s) == Atob(s)

\* ------------------------------------------------------------------------
\* libsodium to_base64 / from_base64 (default variant: URL-safe, no padding)

SodiumChar(v) ==
  IF v < 62 THEN B64Char(v) ELSE IF v = 62 THEN 45 ELSE 95

SodiumVal(c) ==
  IF c = 45 THEN 62
  ELSE IF c = 95 THEN 63
  ELSE IF c = 43 \/ c = 47 THEN -1
  ELSE B64Val(c)

to_base64(b) == [i \in 1..SextetCount(b) |-> SodiumChar(SextetAt(b, i - 1))]

\* from_base64(s): throws on a character outside the alphabet, on an
\* incomplete group and on non-zero trailing bits
from_base64(s) ==
  LET v == [i \in 1..Len(s) |-> SodiumVal(s[i])]
      r == Len(s) % 4
  IN IF \E i \in 1..Len(s) : v[i] = -1 THEN Err
     ELSE IF r = 1 THEN Err
     ELSE IF r = 2 /\ v[Len(s)] % 16 # 0 THEN Err
     ELSE IF r = 3 /\ v[Len(s)] % 4 # 0 THEN Err
     ELSE Ok(SextetsToBytes(v))

\* ------------------------------------------------------------------------
\* Authenticated encryption (the library primitives behind
\* crypto.subtle.encrypt/decrypt and crypto_secretbox_easy/_open_easy).
\* The primitive is modelled by its contract: the 16-byte tag binds key,
\* nonce and body, and opening succeeds only if the tag recomputed under the
\* receiver's key and nonce equals the transmitted one.

RECURSIVE SumSeq(_)
SumSeq(b) == IF b = <<>> THEN 0 ELSE b[1] + SumSeq(Tail(b))

Mix(k, n) == (k[1] + 7 * n[1]) % 256

Mac(k, n, body) ==
  <<k[1], k[Len(k)], n[1], n[Len(n)], Len(n), Len(body) % 256, SumSeq(body) % 256>>
    \o [j \in 1..9 |-> 0]

Mask(k, n, pt) == [j \in 1..Len(pt) |-> (pt[j] + Mix(k, n)) % 256]

Unmask(k, n, body) == [j \in 1..Len(body) |-> (body[j] + 256 - Mix(k, n)) % 256]

\* crypto_secretbox_easy(message, nonce, key): MAC first, then the body
crypto_secretbox_easy(m, n, k) ==
  IF Len(k) # 32 \/ Len(n) # 24 THEN Err
  ELSE Ok(Mac(k, n, Mask(k, n, m)) \o Mask(k, n, m))

\* crypto_secretbox_open_easy(ciphertext, nonce, key): throws on a short
\* ciphertext, a nonce or key of the wrong length, or a MAC that does not verify
crypto_secretbox_open_easy(c, n, k) ==
  IF Len(k) # 32 \/ Len(n) # 24 \/ Len(c) < 16 THEN Err
  ELSE LET body == SubSeq(c, 17, Len(c)) IN
       IF SubSeq(c, 1, 16) # Mac(k, n, body) THEN Err
       ELSE Ok(Unmask(k, n, body))

\* AES-GCM encrypt: the body, then the tag
AesGcmEncrypt(k, iv, pt) ==
  IF iv = <<>> THEN Err
  ELSE Ok(Mask(k, iv, pt) \o Mac(k, iv, Mask(k, iv, pt)))

\* a decryption that does not verify the tag
AesGcmDecryptUnchecked(k, iv, ct) ==
  IF iv = <<>> \/ Len(ct) < 16 THEN Err
  ELSE Ok(Unmask(k, iv, SubSeq(ct, 1, Len(ct) - 16)))

\* AES-GCM decrypt: OperationError on a short ciphertext or a tag mismatch
AesGcmDecrypt(k, iv, ct) ==
  IF iv = <<>> \/ Len(ct) < 16 THEN Err
  ELSE LET body == SubSeq(ct, 1, Len(ct) - 16) IN
       IF SubSeq(ct, Len(ct) - 15, Len(ct)) # Mac(k, iv, body) THEN Err
       ELSE Ok(Unmask(k, iv, body))

\* ------------------------------------------------------------------------
\* String.prototype.trim

IsWhiteSpace(c) ==
  \/ c \in {9, 10, 11, 12, 13, 32, 160, 5760, 8232, 8233, 8239, 8287, 12288, 65279}
  \/ (c >= 8192 /\ c <= 8202)

RECURSIVE TrimStart(_)
TrimStart(s) ==
  IF s # <<>> /\ IsWhiteSpace(s[1]) THEN TrimStart(Tail(s)) ELSE s

RECURSIVE TrimEnd(_)
TrimEnd(s) ==
  IF s # <<>> /\ IsWhiteSpace(s[Len(s)]) THEN TrimEnd(SubSeq(s, 1, Len(s) - 1)) ELSE s

Trim(s) == TrimEnd(TrimStart(s))

\* ------------------------------------------------------------------------
\* Bounds of the model

\* WebSocket objects a session may create
MaxSockets == 2

\* distinct outcomes of the random key generator
NumKeys == 2

\* children of #messages
MaxLog == 2

\* messages a session sends (ids makeId hands out)
MaxSend == 1

\* handlers of a session suspended in a crypto.subtle call at one time
MaxTasks == 1

\* message listeners suspended at a time where their interleavings are examined
MaxRacing == 2

\* ------------------------------------------------------------------------
\* Values

\* null where a string or byte array is expected
Null == <<-1>>

\* outcomes of the random source
KeySeeds == 1..NumKeys

NonceSeeds == {1, 2}

\* randombytes_buf(32) / the raw bytes behind generateKey (256 bits)
RandomKey(i) == [j \in 1..32 |-> i]

\* randombytes_buf(crypto_secretbox_NONCEBYTES)
RandomNonce24(i) == [j \in 1..24 |-> i]

\* crypto.getRandomValues(new Uint8Array(12))
RandomIv12(i) == [j \in 1..12 |-> i]

\* texts the user may have typed in the message box:
\* "", "a", U+FEFF "b" (leading zero-width no-break space), a lone surrogate
Texts == {<<>>, <<97>>, <<65279, 98>>, <<55296>>}

\* contents of the user id field: "" and "u"
UserIdInputs == {<<>>, <<117>>}

UserName == <<117>>

PeerName == <<112>>

\* contents of the conversation field: "", " ", "r", "s"
RoomInputs == {<<>>, <<32>>, <<114>>, <<115>>}

Rooms == {Trim(r) : r \in RoomInputs} \ {<<>>}

\* contents of the conversation field of the AES clients: "" and "s"
ConvInputs == {<<>>, <<115>>}

Sockets == 1..MaxSockets

\* browser contexts sharing one localStorage: 1 is the session followed in
\* full, 2 another tab of the same origin
Tabs == {1, 2}

\* localStorage keys
RoomKeyItem(room) == [prefix |-> "roomkey_", id |-> room]

ChatKeyItem == [prefix |-> "chat_key", id |-> <<>>]

StorageItems == {RoomKeyItem(r) : r \in Rooms} \cup {ChatKeyItem}

\* ------------------------------------------------------------------------
\* Envelopes and frames

Envelope(id, conv, sender, iv, ct, kind) ==
  [id |-> id, conversationId |-> conv, senderId |-> sender, iv |-> iv,
   ciphertext |-> ct, kind |-> kind]

\* msg.envelope missing from a frame
NoEnvelope == Envelope(0, <<>>, <<>>, <<>>, <<>>, "absent")

\* a frame handed to a socket; plain and keyRaw record what the ciphertext
\* was computed from
Frame(sock, action, conv, env, plain, keyRaw) ==
  [sock |-> sock, action |-> action, conv |-> conv, env |-> env,
   plain |-> plain, keyRaw |-> keyRaw]

\* an entry of the message log: head is the literal part of the line,
\* body the interpolated text
Entry(cls, sender, head, body, id) ==
  [cls |-> cls, sender |-> sender, head |-> head, body |-> body, id |-> id]

\* text of #meta: a literal part and the interpolated conversation id
Meta(head, conv) == [head |-> head, conv |-> conv]

\* no line appended for an envelope
NoEntry == Entry("", <<>>, "(nothing)", <<>>, 0)

\* an envelope whose handling ended and the line appended for it
Handled(env, shown) == [env |-> env, shown |-> shown]

\* what the most recent handler run did: the handler, the socket whose event
\* it served, the session state a click handler started in, the alert it showed, whether
\* it ended in an uncaught error, the outcome of its last ws.send, the frames
\* it transmitted, the envelopes whose handling it ended and the lines it
\* appended to the message log; for a run of a message listener, count is
\* the number of envelopes it had before it and rest the envelopes it left
\* for after its suspension
Last(op, sock, pre, alert, threw, tx, frames, handled, logged) ==
  [op |-> op, sock |-> sock, pre |-> pre, alert |-> alert, threw |-> threw,
   tx |-> tx, frames |-> frames, handled |-> handled, logged |-> logged,
   count |-> 0, rest |-> <<>>]

\* ------------------------------------------------------------------------
\* State

VARIABLES
  variant,          \* which client is loaded: "sodium", "upload" or "dedupe"
  ws,               \* the current WebSocket (0: null)
  readyState,       \* readyState of every WebSocket object ("NONE": not created)
  subscribed,       \* per socket, the conversation last joined over it
  storage,          \* localStorage, shared by the tabs of the origin
  last,             \* what the most recent handler run did
  roomId,           \* sodium: let roomId
  roomKey,          \* sodium: let roomKey
  status,           \* sodium: text of #status
  key,              \* AES clients: let key, per tab
  convId,           \* AES clients: let convId
  messagesDiv,      \* AES clients: children of #messages
  meta,             \* AES clients: text of #meta
  displayedMsgIds,  \* dedupe: const displayedMsgIds
  boot,             \* AES clients: position of each tab's boot sequence
  tasks,            \* AES clients: handlers suspended in an await
  nextId,           \* dedupe: ids handed out by makeId so far
  returned,         \* per storage item, the keys load-or-create has returned
  overwrote         \* storage items whose stored key was replaced by another

commonVars == <<variant, ws, readyState, subscribed, storage, last>>

sodiumVars == <<roomId, roomKey, status>>

aesVars == <<key, convId, messagesDiv, meta, displayedMsgIds, boot, tasks, nextId>>

ghostVars == <<returned, overwrote>>

vars == <<commonVars, sodiumVars, aesVars, ghostVars>>

\* ------------------------------------------------------------------------
\* WebSocket

\* the socket object the next "new WebSocket" creates (0: the model's bound
\* on sockets is reached)
NewSocket ==
  IF \E s \in Sockets : readyState[s] = "NONE"
  THEN CHOOSE s \in Sockets :
         readyState[s] = "NONE" /\ \A r \in Sockets : r < s => readyState[r] # "NONE"
  ELSE 0

\* ws.send on socket sock: a TypeError on null, an InvalidStateError while
\* connecting, transmission when open, silent discard when closing or closed
SendOutcome(sock, rs) ==
  IF sock = 0 THEN "throw"
  ELSE IF rs[sock] = "CONNECTING" THEN "throw"
  ELSE IF rs[sock] = "OPEN" THEN "sent"
  ELSE "dropped"

IsOpen(sock, rs) == sock # 0 /\ rs[sock] = "OPEN"

\* the frames a ws.send of f transmits
Transmitted(sock, rs, f) == IF SendOutcome(sock, rs) = "sent" THEN <<f>> ELSE <<>>

\* the record of joins after a ws.send of a join/subscribe for conv
Subscribe(sub, sock, rs, conv) ==
  IF SendOutcome(sock, rs) = "sent" THEN [sub EXCEPT ![sock] = conv] ELSE sub

\* ------------------------------------------------------------------------
\* Session state of the spec's state machine, read off the program state

KeyLoaded ==
  IF variant = "sodium" THEN roomKey # Null ELSE key[1].type = "secret"

Conversation == IF variant = "sodium" THEN roomId ELSE convId

SessionState ==
  IF ws = 0 \/ readyState[ws] \in {"CLOSING", "CLOSED"} THEN "Disconnected"
  ELSE IF readyState[ws] = "CONNECTING" THEN "Connecting"
  ELSE IF KeyLoaded /\ subscribed[ws] = Conversation THEN "Joined"
  ELSE "Connected"

\* ------------------------------------------------------------------------
\* sodium client (src/unnamed/part_000)

\* log(text, cls): the line appended to #chat.  The page never reads #chat
\* back, so the model keeps the lines a handler appends in last.logged.
S_log(head, body, cls) == Entry(cls, <<>>, head, body, 0)

\* the values let roomKey may hold
S_keys == {Null} \cup {RandomKey(i) : i \in KeySeeds}

\* to_base64(newKey) and from_base64(k) of loadOrCreateRoomKey, tabulated for
\* the keys of the model
S_keyToBase64Table == [k \in S_keys \ {Null} |-> to_base64(k)]

S_keyToBase64(k) ==
  IF k \in DOMAIN S_keyToBase64Table THEN S_keyToBase64Table[k] ELSE to_base64(k)

S_keyFromBase64Table ==
  [v \in {S_keyToBase64(k) : k \in S_keys \ {Null}} |-> from_base64(v)]

S_keyFromBase64(v) ==
  IF v \in DOMAIN S_keyFromBase64Table THEN S_keyFromBase64Table[v] ELSE from_base64(v)

\* a loadOrCreateRoomKey that ignores what is stored
loadOrCreateRoomKeyAlwaysNew(st, room, i) ==
  [res |-> Ok(RandomKey(i)),
   st |-> [st EXCEPT ![RoomKeyItem(room)] = S_keyToBase64(RandomKey(i))]]

\* loadOrCreateRoomKey(roomId) with random outcome i: the key returned (or
\* the error thrown) and the storage afterwards
loadOrCreateRoomKey(st, room, i) ==
  LET k == st[RoomKeyItem(room)] IN
  IF k # Null /\ k # <<>>
  THEN [res |-> S_keyFromBase64(k), st |-> st]
  ELSE [res |-> Ok(RandomKey(i)),
        st |-> [st EXCEPT ![RoomKeyItem(room)] = S_keyToBase64(RandomKey(i))]]

\* connectBtn.onclick
S_connectClick(u) ==
  /\ variant = "sodium"
  /\ LET userId == Trim(u) IN
     IF userId = <<>> THEN
       /\ last' = Last("connect", 0, SessionState, "Enter user id", FALSE, "none",
                       <<>>, <<>>, <<>>)
       /\ UNCHANGED <<ws, readyState, status>>
     ELSE
       /\ NewSocket # 0
       /\ ws' = NewSocket
       /\ readyState' = [readyState EXCEPT ![NewSocket] = "CONNECTING"]
       /\ status' = "connecting..."
       /\ last' = Last("connect", 0, SessionState, "", FALSE, "none", <<>>,
                       <<>>, <<>>)
  /\ UNCHANGED <<variant, subscribed, storage, roomId, roomKey>>
  /\ UNCHANGED <<aesVars, ghostVars>>

\* ws.onopen of socket s; the handler sends on the variable ws, whichever
\* socket that is by now
S_onopen(s) ==
  /\ variant = "sodium"
  /\ readyState[s] = "CONNECTING"
  /\ readyState' = [readyState EXCEPT ![s] = "OPEN"]
  /\ LET out == SendOutcome(ws, readyState')
         auth == Frame(ws, "auth", <<>>, NoEnvelope, <<>>, <<>>)
     IN
     /\ status' = IF out = "throw" THEN status ELSE "connected"
     /\ last' = Last("open", s, "", "", out = "throw", out,
                     Transmitted(ws, readyState', auth), <<>>,
                     IF out = "throw" THEN <<>>
                     ELSE <<S_log("Connected as ", UserName, "me")>>)
  /\ UNCHANGED <<variant, ws, subscribed, storage, roomId, roomKey>>
  /\ UNCHANGED <<aesVars, ghostVars>>

\* A frame the server may deliver to the sodium client
S_Data(json, type, from, ct, nonce) ==
  [json |-> json, type |-> type, from |-> from, ciphertext |-> ct, nonce |-> nonce]

\* ciphertext and nonce fields as sendBtn.onclick computes them
S_seal(text, nonceSeed, k) ==
  [ciphertext |-> to_base64(crypto_secretbox_easy(TextEncode(text),
                                RandomNonce24(nonceSeed), k).val),
   nonce |-> to_base64(RandomNonce24(nonceSeed))]

\* what the server may deliver: messages a holder of one of the keys sent
\* (this client's own among them), damaged or incomplete messages, frames
\* of another type, text that is not JSON
S_frames ==
  LET sealed(t, i) == S_seal(t, 1, RandomKey(i)) IN
  {S_Data(TRUE, "message", PeerName, sealed(t, i).ciphertext, sealed(t, i).nonce) :
     t \in Texts \ {<<>>}, i \in KeySeeds}
  \cup {S_Data(TRUE, "message", PeerName, sealed(<<97>>, 1).ciphertext,
               SubSeq(sealed(<<97>>, 1).nonce, 1, 2)),
        S_Data(TRUE, "message", PeerName, SubSeq(sealed(<<97>>, 1).ciphertext, 1, 4),
               sealed(<<97>>, 1).nonce),
        S_Data(TRUE, "message", PeerName, Undefined, Undefined),
        S_Data(TRUE, "joined", <<>>, Undefined, Undefined),
        S_Data(FALSE, "", <<>>, <<>>, <<>>)}

\* the try block of ws.onmessage: the decrypted text, or the error caught
S_decrypt(msg, k) ==
  LET ciphertext == from_base64(msg.ciphertext)
      nonce == from_base64(msg.nonce)
  IN IF ~ciphertext.ok \/ ~nonce.ok \/ k = Null THEN Err
     ELSE LET plain == crypto_secretbox_open_easy(ciphertext.val, nonce.val, k) IN
          IF ~plain.ok THEN Err ELSE Ok(TextDecode(plain.val))

\* the line ws.onmessage logs for a "message" frame
S_line(msg, k) ==
  LET text == S_decrypt(msg, k) IN
  IF text.ok
  THEN Entry("peer", msg.from, ": ", text.val, 0)
  ELSE S_log("[decrypt failed - showing ciphertext]\n", msg.ciphertext, "meta")

\* S_line tabulated for the frames and keys of the model
S_lineTable == [msg \in S_frames, k \in S_keys |-> S_line(msg, k)]

S_lineFor(msg, k) ==
  IF k \in S_keys THEN S_lineTable[msg, k] ELSE S_line(msg, k)

\* S_seal tabulated for the texts, nonces and keys of the model
S_sealTable ==
  [t \in Texts, n \in NonceSeeds, k \in S_keys \ {Null} |-> S_seal(t, n, k)]

S_sealFor(t, n, k) ==
  IF k \in S_keys \ {Null} THEN S_sealTable[t, n, k] ELSE S_seal(t, n, k)

\* ws.onmessage of socket s
S_onmessage(s, msg) ==
  /\ variant = "sodium"
  /\ readyState[s] = "OPEN"
  /\ IF ~msg.json \/ msg.type # "message" THEN
       last' = Last("message", s, "", "", FALSE, "none", <<>>,
                    <<>>, <<>>)
     ELSE
       last' = [Last("message", s, "", "", FALSE, "none", <<>>,
                     <<Handled(Envelope(0, <<>>, msg.from, msg.nonce, msg.ciphertext, "text"),
                               S_lineFor(msg, roomKey))>>,
                     <<S_lineFor(msg, roomKey)>>) EXCEPT !.count = 1]
  /\ UNCHANGED <<variant, ws, readyState, subscribed, storage>>
  /\ UNCHANGED <<sodiumVars, aesVars, ghostVars>>

\* the connection of socket s has closed or failed: readyState becomes
\* CLOSED and, in one task, ws.onerror runs if it failed and then ws.onclose,
\* which leaves #status at "disconnected" either way
S_onclose(s) ==
  /\ variant = "sodium"
  /\ readyState[s] \in {"CONNECTING", "OPEN"}
  /\ readyState' = [readyState EXCEPT ![s] = "CLOSED"]
  /\ status' = "disconnected"
  /\ last' = Last("close", s, "", "", FALSE, "none", <<>>, <<>>, <<>>)
  /\ UNCHANGED <<variant, ws, subscribed, storage, roomId, roomKey>>
  /\ UNCHANGED <<aesVars, ghostVars>>

\* joinBtn.onclick with the conversation field holding r
S_joinClick(r, i) ==
  /\ variant = "sodium"
  /\ roomId' = Trim(r)
  /\ IF roomId' = <<>> THEN
       /\ last' = Last("join", 0, SessionState, "Enter conversation ID", FALSE, "none",
                       <<>>, <<>>, <<>>)
       /\ UNCHANGED <<subscribed, storage, roomKey, returned>>
     ELSE
       LET loaded == loadOrCreateRoomKey(storage, roomId', i)
           out == SendOutcome(ws, readyState)
           join == Frame(ws, "join", roomId', NoEnvelope, <<>>, <<>>)
       IN IF ~loaded.res.ok THEN
            /\ last' = Last("join", 0, SessionState, "", TRUE, "none", <<>>,
                            <<>>, <<>>)
            /\ UNCHANGED <<subscribed, storage, roomKey, returned>>
          ELSE
            /\ storage' = loaded.st
            /\ roomKey' = loaded.res.val
            /\ returned' = [returned EXCEPT ![RoomKeyItem(roomId')] = @ \cup {roomKey'}]
            /\ subscribed' = Subscribe(subscribed, ws, readyState, roomId')
            /\ last' = Last("join", 0, SessionState, "", out = "throw", out,
                            Transmitted(ws, readyState, join), <<>>,
                            <<S_log("Joined room: ", roomId', "meta")>>)
  /\ UNCHANGED <<variant, ws, readyState, status, overwrote>>
  /\ UNCHANGED aesVars

\* sendBtn.onclick with the message box holding t
S_sendClick(t, n) ==
  /\ variant = "sodium"
  /\ IF ~IsOpen(ws, readyState) THEN
       last' = Last("send", 0, SessionState, "Not connected", FALSE, "none",
                    <<>>, <<>>, <<>>)
     ELSE IF roomKey = Null THEN
       last' = Last("send", 0, SessionState, "Join a room first", FALSE, "nokey",
                    <<>>, <<>>, <<>>)
     ELSE IF t = <<>> THEN
       last' = Last("send", 0, SessionState, "", FALSE, "none", <<>>,
                    <<>>, <<>>)
     ELSE
       LET sealed == S_sealFor(t, n, roomKey)
           env == Envelope(0, roomId, UserName, sealed.nonce, sealed.ciphertext, "text")
       IN last' = Last("send", 0, SessionState, "", FALSE, "sent",
                       <<Frame(ws, "send_message", roomId, env, t, roomKey)>>,
                       <<>>, <<S_log("me: ", t, "me")>>)
  /\ UNCHANGED <<variant, ws, readyState, subscribed, storage>>
  /\ UNCHANGED <<sodiumVars, aesVars, ghostVars>>

\* loadOrCreateRoomKey run by another tab of the origin joining room r
S_otherTabJoin(r, i) ==
  /\ variant = "sodium"
  /\ LET loaded == loadOrCreateRoomKey(storage, r, i) IN
     /\ loaded.res.ok
     /\ storage' = loaded.st
     /\ returned' = [returned EXCEPT ![RoomKeyItem(r)] = @ \cup {loaded.res.val}]
  /\ last' = Last("othertab", 0, "", "", FALSE, "none", <<>>, <<>>, <<>>)
  /\ UNCHANGED <<variant, ws, readyState, subscribed, overwrote>>
  /\ UNCHANGED <<sodiumVars, aesVars>>

NextSodium ==
  \/ \E u \in UserIdInputs : S_connectClick(u)
  \/ \E s \in Sockets : S_onopen(s)
  \/ \E s \in Sockets : \E msg \in S_frames : S_onmessage(s, msg)
  \/ \E s \in Sockets : S_onclose(s)
  \/ \E r \in RoomInputs : \E i \in KeySeeds : S_joinClick(r, i)
  \/ \E t \in Texts : \E n \in NonceSeeds : S_sendClick(t, n)
  \/ \E r \in Rooms : \E i \in KeySeeds : S_otherTabJoin(r, i)

\* ------------------------------------------------------------------------
\* AES clients: keys

\* a CryptoKey object
CryptoKey(raw) == [type |-> "secret", algorithm |-> "AES-GCM", raw |-> raw]

\* key = null
NullKey == [type |-> "null", algorithm |-> "", raw |-> <<>>]


\* isValidAesCryptoKey(k)
isValidAesCryptoKey(k) == k.type = "secret" /\ k.algorithm = "AES-GCM"

\* importKeyRaw(raw): a DataError unless raw holds 128, 192 or 256 bits
importKeyRaw(raw) == IF Len(raw) \in {16, 24, 32} THEN Ok(CryptoKey(raw)) ELSE Err

\* the value saveKeyToLocal(key) stores under chat_key
saveKeyToLocal(k) == Btoa(k.raw)

\* loadKeyFromLocal() when getItem('chat_key') returned s: null when nothing
\* is stored, else the imported key or the error thrown
loadKeyFromLocal(s) ==
  IF s = Null \/ s = <<>> THEN Ok(NullKey)
  ELSE LET bin == Atob(s) IN
       IF ~bin.ok THEN Err ELSE importKeyRaw(bin.val)

\* the values let key may hold
A_keys == {NullKey} \cup {CryptoKey(RandomKey(i)) : i \in KeySeeds}

\* what chat_key may hold when the page loads: nothing, a key an earlier
\* visit stored, or a value that is not base64 ("!")
A_stored == {Null, <<33>>, saveKeyToLocal(CryptoKey(RandomKey(1)))}

A_loadTable ==
  [s \in A_stored \cup {saveKeyToLocal(k) : k \in A_keys \ {NullKey}} |->
     loadKeyFromLocal(s)]

A_load(s) == IF s \in DOMAIN A_loadTable THEN A_loadTable[s] ELSE loadKeyFromLocal(s)

A_saveTable == [k \in A_keys \ {NullKey} |-> saveKeyToLocal(k)]

A_save(k) == IF k \in DOMAIN A_saveTable THEN A_saveTable[k] ELSE saveKeyToLocal(k)

\* ------------------------------------------------------------------------
\* AES clients: encryption

\* encryptText(key, plain) of the upload client with random outcome n;
\* crypto.subtle.encrypt rejects a key that is no CryptoKey
U_encryptText(k, plain, n) ==
  IF k.type # "secret" THEN Err
  ELSE LET ct == AesGcmEncrypt(k.raw, RandomIv12(n), TextEncode(plain)) IN
       IF ~ct.ok THEN Err
       ELSE Ok([iv |-> bufToBase64(RandomIv12(n)), ciphertext |-> bufToBase64(ct.val)])

\* decryptText(key, ivB64, ctB64) of the upload client
U_decryptText(k, ivB64, ctB64) ==
  LET iv == base64ToBuf(ivB64)
      ct == base64ToBuf(ctB64)
  IN IF ~iv.ok \/ ~ct.ok \/ k.type # "secret" THEN Err
     ELSE LET pt == AesGcmDecrypt(k.raw, iv.val, ct.val) IN
          IF ~pt.ok THEN Err ELSE Ok(TextDecode(pt.val))

\* encryptText(key, plain) of the dedupe client with random outcome n
encryptText(k, plain, n) ==
  IF ~isValidAesCryptoKey(k) THEN Err
  ELSE LET ct == AesGcmEncrypt(k.raw, RandomIv12(n), TextEncode(plain)) IN
       IF ~ct.ok THEN Err
       ELSE Ok([iv |-> bufToBase64(RandomIv12(n)), ciphertext |-> bufToBase64(ct.val)])

\* decryptText(key, ivB64, ctB64) of the dedupe client
decryptText(k, ivB64, ctB64) ==
  IF ~isValidAesCryptoKey(k) THEN Err
  ELSE LET iv == base64ToBuf(ivB64)
           ct == base64ToBuf(ctB64)
       IN IF ~iv.ok \/ ~ct.ok THEN Err
          ELSE LET pt == AesGcmDecrypt(k.raw, iv.val, ct.val) IN
               IF ~pt.ok THEN Err ELSE Ok(TextDecode(pt.val))

\* texts the user may have typed in the message box of an AES client:
\* "" and " a"
A_textInputs == {<<>>, <<32, 97>>}

\* texts the send handlers encrypt
A_texts == {Trim(t) : t \in A_textInputs} \ {<<>>}

encryptTable ==
  [k \in A_keys \ {NullKey}, t \in A_texts, n \in NonceSeeds |-> encryptText(k, t, n)]

D_encrypt(k, t, n) ==
  IF <<k, t, n>> \in DOMAIN encryptTable THEN encryptTable[k, t, n] ELSE encryptText(k, t, n)

U_encryptTable ==
  [k \in A_keys \ {NullKey}, t \in A_texts, n \in NonceSeeds |-> U_encryptText(k, t, n)]

U_encrypt(k, t, n) ==
  IF <<k, t, n>> \in DOMAIN U_encryptTable THEN U_encryptTable[k, t, n]
  ELSE U_encryptText(k, t, n)

\* ------------------------------------------------------------------------
\* AES clients: what the server may deliver

\* an id no makeId call of this session returns
PeerMsgId == MaxSend + 1

\* iv and ciphertext fields a holder of key i sends for "a"
A_sealed(i) == encryptText(CryptoKey(RandomKey(i)), <<97>>, 1).val

\* envelopes of peers holding one of the keys
A_peerEnvs ==
  {Envelope(PeerMsgId, <<>>, PeerName, A_sealed(i).iv, A_sealed(i).ciphertext, "text") :
     i \in KeySeeds}

\* an envelope whose iv is truncated
A_damagedEnvs ==
  {Envelope(PeerMsgId, <<>>, PeerName, SubSeq(A_sealed(1).iv, 1, 5), A_sealed(1).ciphertext,
            "text")}

\* envelopes carrying the id of a message this session sent
A_echoEnvs ==
  {Envelope(id, <<>>, UserName, A_sealed(1).iv, A_sealed(1).ciphertext, "text") :
     id \in 1..MaxSend}

\* an envelope pointing to an uploaded file
A_fileEnv == Envelope(0, <<>>, PeerName, A_sealed(1).iv, <<47, 102>>, "file")

A_envs == A_peerEnvs \cup A_damagedEnvs \cup A_echoEnvs \cup {A_fileEnv, NoEnvelope}

\* envelopes of history replies
A_historyEnvs ==
  {e \in A_peerEnvs : e.ciphertext = A_sealed(1).ciphertext}
  \cup A_damagedEnvs \cup A_echoEnvs

A_Data(json, action, envelope, history) ==
  [json |-> json, action |-> action, envelope |-> envelope, history |-> history]

\* frames the server may deliver once n ids have been handed out
A_frames(n, fileKind) ==
  LET known(e) == e.id \in {0, PeerMsgId} \/ e.id <= n
      envs == {e \in A_envs : known(e) /\ (e.kind = "file" => fileKind)}
      hist == {e \in A_historyEnvs : known(e)}
  IN {A_Data(FALSE, "", NoEnvelope, <<>>), A_Data(TRUE, "identified", NoEnvelope, <<>>)}
     \cup {A_Data(TRUE, "message", e, <<>>) : e \in envs}
     \cup {A_Data(TRUE, "history", NoEnvelope, <<>>)}
     \cup {A_Data(TRUE, "history", NoEnvelope, <<e>>) : e \in hist}
     \cup {A_Data(TRUE, "history", NoEnvelope, <<e1, e2>>) :
             e1 \in hist, e2 \in hist \cap A_peerEnvs}

\* the frames of the dedupe client (no file envelopes), per number of ids
D_frames == [n \in 0..MaxSend |-> A_frames(n, FALSE)]

\* a handler suspended in an await: a message listener decrypting the head
\* of queue, a send handler encrypting text (conv: the conversation that was
\* active when it started), a join waiting for sock to open
Task(kind, sock, queue, text, conv) ==
  [kind |-> kind, sock |-> sock, queue |-> queue, text |-> text, conv |-> conv]

RemoveAt(seq, i) == SubSeq(seq, 1, i - 1) \o SubSeq(seq, i + 1, Len(seq))

\* handlers suspended in a crypto.subtle call
CryptoTasks == {i \in 1..Len(tasks) : tasks[i].kind \in {"recv", "send"}}

SendTasks == {i \in 1..Len(tasks) : tasks[i].kind = "send"}

\* text of #meta
MetaInfo(conv) == Meta("User: u - Conversation: ", conv)

\* ------------------------------------------------------------------------
\* dedupe client (src/static/app.js, second script)

\* whether handleIncomingEnvelope(env) reaches crypto.subtle.decrypt and
\* suspends there: the key is valid and both fields decode
D_suspends(env, k) ==
  isValidAesCryptoKey(k) /\ base64ToBuf(env.iv).ok /\ base64ToBuf(env.ciphertext).ok

\* the element handleIncomingEnvelope(env) appends
D_render(env, k) ==
  LET cls == IF env.senderId = UserName THEN "me" ELSE ""
      text == decryptText(k, env.iv, env.ciphertext)
  IN IF ~isValidAesCryptoKey(k)
     THEN Entry(cls, env.senderId, "[no key loaded - showing ciphertext]\n",
                env.ciphertext, env.id)
     ELSE IF text.ok THEN Entry(cls, env.senderId, "", text.val, env.id)
     ELSE Entry(cls, env.senderId, "[decrypt failed - showing ciphertext]\n",
                env.ciphertext, env.id)

\* D_render and D_suspends tabulated for the envelopes and keys of the model
D_table ==
  [env \in A_envs \cup A_historyEnvs, k \in A_keys |->
     [shown |-> D_render(env, k), suspends |-> D_suspends(env, k)]]

\* a loop that an envelope failing before decrypt ends
D_stepStopOnFailure(acc, rest, env, cell, settled) ==
  IF acc.stopped THEN acc
  ELSE IF settled
  THEN [acc EXCEPT !.handled = Append(@, Handled(env, cell.shown)),
                   !.logged = Append(@, cell.shown),
                   !.displayed = IF env.id # 0 THEN @ \cup {env.id} ELSE @]
  ELSE IF env.kind = "absent"
  THEN [acc EXCEPT !.stopped = TRUE, !.handled = Append(@, Handled(env, NoEntry))]
  ELSE IF env.id # 0 /\ env.id \in acc.displayed
  THEN [acc EXCEPT !.handled = Append(@, Handled(env, NoEntry))]
  ELSE IF cell.suspends
  THEN [acc EXCEPT !.stopped = TRUE, !.queue = rest]
  ELSE [acc EXCEPT !.stopped = TRUE,
                   !.handled = Append(@, Handled(env, cell.shown)),
                   !.logged = Append(@, cell.shown),
                   !.displayed = IF env.id # 0 THEN @ \cup {env.id} ELSE @]

\* one turn of the message listener's loop, at envelope env with cell its
\* entry of D_table: an envelope already displayed is skipped, a missing
\* envelope raises the TypeError the listener catches, an envelope that
\* reaches decrypt suspends the listener with the rest of the queue, any
\* other is appended with its placeholder.  settled: the turn resumes after
\* the decrypt of env and appends it.
D_step(acc, rest, env, cell, settled) ==
  IF acc.stopped THEN acc
  ELSE IF settled
  THEN [acc EXCEPT !.handled = Append(@, Handled(env, cell.shown)),
                   !.logged = Append(@, cell.shown),
                   !.displayed = IF env.id # 0 THEN @ \cup {env.id} ELSE @]
  ELSE IF env.kind = "absent"
  THEN [acc EXCEPT !.stopped = TRUE, !.handled = Append(@, Handled(env, NoEntry))]
  ELSE IF env.id # 0 /\ env.id \in acc.displayed
  THEN [acc EXCEPT !.handled = Append(@, Handled(env, NoEntry))]
  ELSE IF cell.suspends
  THEN [acc EXCEPT !.stopped = TRUE, !.queue = rest]
  ELSE [acc EXCEPT !.handled = Append(@, Handled(env, cell.shown)),
                   !.logged = Append(@, cell.shown),
                   !.displayed = IF env.id # 0 THEN @ \cup {env.id} ELSE @]

\* the message listener running over the envelopes of queue until one
\* suspends in decrypt; resumed: it starts after the decrypt of queue[1]
D_run(queue, displayed, k, resumed) ==
  LET turn[i \in 0..Len(queue)] ==
        IF i = 0
        THEN [queue |-> <<>>, handled |-> <<>>, logged |-> <<>>,
              displayed |-> displayed, stopped |-> FALSE, count |-> Len(queue)]
        ELSE D_step(turn[i - 1], SubSeq(queue, i, Len(queue)), queue[i],
                    D_table[queue[i], k], resumed /\ i = 1)
  IN turn[Len(queue)]

\* what a run of the message listener leaves: the elements appended, the
\* ids recorded, the listener itself among the suspended handlers
D_listened(op, run, others, limit) ==
  /\ Len(messagesDiv) + Len(run.logged) <= MaxLog
  /\ messagesDiv' = messagesDiv \o run.logged
  /\ displayedMsgIds' = run.displayed
  /\ run.queue # <<>> =>
       Cardinality({j \in 1..Len(others) : others[j].kind \in {"recv", "send"}}) < limit
  /\ tasks' = IF run.queue = <<>> THEN others
              ELSE Append(others, Task("recv", 0, run.queue, <<>>, <<>>))
  /\ last' = [Last(op, 0, "", "", FALSE, "none", <<>>, run.handled, run.logged)
                EXCEPT !.count = run.count, !.rest = run.queue]

\* connectWs(): ws = new WebSocket(...)
D_connectWs ==
  /\ NewSocket # 0
  /\ ws' = NewSocket
  /\ readyState' = [readyState EXCEPT ![NewSocket] = "CONNECTING"]

\* the boot sequence of tab t after its key is set: await connectWs()
D_bootConnect(t) ==
  IF t = 1
  THEN /\ D_connectWs
       /\ boot' = [boot EXCEPT ![t].pc = "connect", ![t].sock = NewSocket]
  ELSE /\ boot' = [boot EXCEPT ![t].pc = "done"]
       /\ UNCHANGED <<ws, readyState>>

\* boot: loadKeyFromLocal() has settled
D_bootLoaded(t) ==
  /\ variant = "dedupe"
  /\ boot[t].pc = "import"
  /\ LET loaded == A_load(boot[t].read) IN
     IF ~loaded.ok THEN
       /\ boot' = [boot EXCEPT ![t].pc = "failed"]
       /\ meta' = IF t = 1 THEN Meta("Error: ", <<>>) ELSE meta
       /\ UNCHANGED <<ws, readyState, key, returned>>
     ELSE IF ~isValidAesCryptoKey(loaded.val) THEN
       /\ boot' = [boot EXCEPT ![t].pc = "generate"]
       /\ UNCHANGED <<ws, readyState, key, meta, returned>>
     ELSE
       /\ key' = [key EXCEPT ![t] = loaded.val]
       /\ returned' = [returned EXCEPT ![ChatKeyItem] = @ \cup {loaded.val.raw}]
       /\ D_bootConnect(t)
       /\ UNCHANGED meta
  /\ last' = Last("boot", 0, "", "", FALSE, "none", <<>>, <<>>, <<>>)
  /\ UNCHANGED <<variant, subscribed, storage, overwrote>>
  /\ UNCHANGED <<convId, messagesDiv, displayedMsgIds, tasks, nextId>>
  /\ UNCHANGED sodiumVars

\* boot: generateKey() has settled with random outcome i; saveKeyToLocal starts
D_bootGenerated(t, i) ==
  /\ variant = "dedupe"
  /\ boot[t].pc = "generate"
  /\ key' = [key EXCEPT ![t] = CryptoKey(RandomKey(i))]
  /\ boot' = [boot EXCEPT ![t].pc = "export"]
  /\ last' = Last("boot", 0, "", "", FALSE, "none", <<>>, <<>>, <<>>)
  /\ UNCHANGED <<variant, ws, readyState, subscribed, storage>>
  /\ UNCHANGED <<convId, messagesDiv, meta, displayedMsgIds, tasks, nextId>>
  /\ UNCHANGED <<sodiumVars, ghostVars>>

\* boot: exportKey has settled; saveKeyToLocal stores the key
D_bootSaved(t) ==
  /\ variant = "dedupe"
  /\ boot[t].pc = "export"
  /\ storage' = [storage EXCEPT ![ChatKeyItem] = A_save(key[t])]
  /\ overwrote' = IF storage[ChatKeyItem] \notin {Null, storage'[ChatKeyItem]}
                  THEN overwrote \cup {ChatKeyItem} ELSE overwrote
  /\ returned' = [returned EXCEPT ![ChatKeyItem] = @ \cup {key[t].raw}]
  /\ D_bootConnect(t)
  /\ last' = Last("boot", 0, "", "", FALSE, "none", <<>>, <<>>, <<>>)
  /\ UNCHANGED <<variant, subscribed>>
  /\ UNCHANGED <<key, convId, messagesDiv, meta, displayedMsgIds, tasks, nextId>>
  /\ UNCHANGED sodiumVars

\* another tab of the origin loads the page: its loadKeyFromLocal reads chat_key
D_tabOpen(t) ==
  /\ variant = "dedupe"
  /\ boot[t].pc = "off"
  /\ boot' = [boot EXCEPT ![t] = [pc |-> "import", read |-> storage[ChatKeyItem],
                                  sock |-> 0,
                                  after |-> \A u \in Tabs \ {t} :
                                              boot[u].pc \in {"connect", "done"}]]
  /\ last' = Last("othertab", 0, "", "", FALSE, "none", <<>>, <<>>, <<>>)
  /\ UNCHANGED <<variant, ws, readyState, subscribed, storage>>
  /\ UNCHANGED <<key, convId, messagesDiv, meta, displayedMsgIds, tasks, nextId>>
  /\ UNCHANGED <<sodiumVars, ghostVars>>

\* the 'open' listener of socket s: identify and subscribe go to the variable
\* ws, each in its own try; resolve() then resumes what awaits connectWs()
\* for s: the boot sequence, join handlers
D_onopen(s) ==
  /\ variant = "dedupe"
  /\ readyState[s] = "CONNECTING"
  /\ readyState' = [readyState EXCEPT ![s] = "OPEN"]
  /\ LET out == SendOutcome(ws, readyState')
         identify == Frame(ws, "identify", <<>>, NoEnvelope, <<>>, <<>>)
         subscribe == Frame(ws, "subscribe", convId, NoEnvelope, <<>>, <<>>)
         booting == boot[1].pc = "connect" /\ boot[1].sock = s
         joining == {i \in 1..Len(tasks) : tasks[i].kind = "join" /\ tasks[i].sock = s}
         resubscribe == [i \in 1..Cardinality(joining) |-> subscribe]
     IN
     /\ subscribed' = Subscribe(subscribed, ws, readyState', convId)
     /\ boot' = IF booting THEN [boot EXCEPT ![1].pc = "done"] ELSE boot
     /\ meta' = IF booting \/ joining # {} THEN MetaInfo(convId) ELSE meta
     /\ messagesDiv' = IF joining # {} THEN <<>> ELSE messagesDiv
     /\ tasks' = SelectSeq(tasks, LAMBDA task : ~(task.kind = "join" /\ task.sock = s))
     /\ last' = Last("open", s, "", "", FALSE, out,
                     IF out = "sent" THEN <<identify, subscribe>> \o resubscribe ELSE <<>>,
                     <<>>, <<>>)
  /\ UNCHANGED <<variant, ws, storage>>
  /\ UNCHANGED <<key, convId, displayedMsgIds, nextId>>
  /\ UNCHANGED <<sodiumVars, ghostVars>>

\* the envelopes a frame makes the message listener handle
A_queue(msg) ==
  IF ~msg.json THEN <<>>
  ELSE IF msg.action = "history" THEN msg.history
  ELSE IF msg.action = "message" THEN <<msg.envelope>>
  ELSE <<>>

\* the 'message' listener of socket s, up to its first suspension, with at
\* most limit handlers suspended in crypto.subtle calls
D_onmessageWithin(s, msg, limit) ==
  /\ variant = "dedupe"
  /\ readyState[s] = "OPEN"
  /\ D_listened("message", D_run(A_queue(msg), displayedMsgIds, key[1], FALSE), tasks,
                limit)
  /\ UNCHANGED <<variant, ws, readyState, subscribed, storage>>
  /\ UNCHANGED <<key, convId, meta, boot, nextId>>
  /\ UNCHANGED <<sodiumVars, ghostVars>>

D_onmessage(s, msg) == D_onmessageWithin(s, msg, MaxTasks)

\* crypto.subtle.decrypt of suspended listener i has settled: its envelope
\* is appended and the listener runs on to its next suspension
D_decryptedWithin(i, limit) ==
  /\ variant = "dedupe"
  /\ i \in 1..Len(tasks)
  /\ tasks[i].kind = "recv"
  /\ D_listened("decrypted", D_run(tasks[i].queue, displayedMsgIds, key[1], TRUE),
                RemoveAt(tasks, i), limit)
  /\ UNCHANGED <<variant, ws, readyState, subscribed, storage>>
  /\ UNCHANGED <<key, convId, meta, boot, nextId>>
  /\ UNCHANGED <<sodiumVars, ghostVars>>

D_decrypted(i) == D_decryptedWithin(i, MaxTasks)

\* the connection of socket s has closed or failed: readyState becomes
\* CLOSED and the 'error' and 'close' listeners log
D_onclose(s) ==
  /\ variant = "dedupe"
  /\ readyState[s] \in {"CONNECTING", "OPEN"}
  /\ readyState' = [readyState EXCEPT ![s] = "CLOSED"]
  /\ last' = Last("close", s, "", "", FALSE, "none", <<>>, <<>>, <<>>)
  /\ UNCHANGED <<variant, ws, subscribed, storage>>
  /\ UNCHANGED <<sodiumVars, aesVars, ghostVars>>

\* the click listener of joinBtn with the conversation field holding c
D_joinClick(c) ==
  /\ variant = "dedupe"
  /\ convId' = IF c # <<>> THEN c ELSE convId
  /\ IF ~IsOpen(ws, readyState) THEN
       /\ D_connectWs
       /\ tasks' = Append(tasks, Task("join", NewSocket, <<>>, <<>>, <<>>))
       /\ last' = Last("join", 0, SessionState, "", FALSE, "none", <<>>, <<>>, <<>>)
       /\ UNCHANGED <<subscribed, meta, messagesDiv>>
     ELSE
       /\ subscribed' = Subscribe(subscribed, ws, readyState, convId')
       /\ meta' = MetaInfo(convId')
       /\ messagesDiv' = <<>>
       /\ last' = Last("join", 0, SessionState, "", FALSE, "sent",
                       <<Frame(ws, "subscribe", convId', NoEnvelope, <<>>, <<>>)>>,
                       <<>>, <<>>)
       /\ UNCHANGED <<ws, readyState, tasks>>
  /\ UNCHANGED <<variant, storage>>
  /\ UNCHANGED <<key, displayedMsgIds, boot, nextId>>
  /\ UNCHANGED <<sodiumVars, ghostVars>>

\* the click listener of sendBtn with the message box holding t, up to its
\* suspension in encryptText
D_sendClick(t) ==
  /\ variant = "dedupe"
  /\ LET text == Trim(t) IN
     IF text = <<>> THEN
       /\ last' = Last("send", 0, SessionState, "", FALSE, "none", <<>>, <<>>, <<>>)
       /\ UNCHANGED tasks
     ELSE IF ~IsOpen(ws, readyState) THEN
       /\ last' = Last("send", 0, SessionState,
                       "WebSocket not connected. Click Join or reload page.",
                       FALSE, "none", <<>>, <<>>, <<>>)
       /\ UNCHANGED tasks
     ELSE IF ~isValidAesCryptoKey(key[1]) THEN
       /\ last' = Last("send", 0, SessionState,
                       "Encryption key missing or invalid. Reload the page.",
                       FALSE, "nokey", <<>>, <<>>, <<>>)
       /\ UNCHANGED tasks
     ELSE
       /\ Cardinality(CryptoTasks) < MaxTasks
       /\ nextId + Cardinality(SendTasks) < MaxSend
       /\ tasks' = Append(tasks, Task("send", 0, <<>>, text, convId))
       /\ last' = Last("send", 0, SessionState, "", FALSE, "none", <<>>, <<>>, <<>>)
  /\ UNCHANGED <<variant, ws, readyState, subscribed, storage>>
  /\ UNCHANGED <<key, convId, messagesDiv, meta, displayedMsgIds, boot, nextId>>
  /\ UNCHANGED <<sodiumVars, ghostVars>>

\* encryptText of suspended send handler i has settled (iv drawn with random
\* outcome n): the envelope gets its id and goes to ws.send; unless that
\* throws, the message is appended
D_encrypted(i, n) ==
  /\ variant = "dedupe"
  /\ i \in 1..Len(tasks)
  /\ tasks[i].kind = "send"
  /\ LET text == tasks[i].text
         sealed == D_encrypt(key[1], text, n)
         msgId == nextId + 1
         out == SendOutcome(ws, readyState)
     IN
     /\ tasks' = RemoveAt(tasks, i)
     /\ IF ~sealed.ok THEN
          /\ last' = Last("encrypted", 0, SessionState, "Send error: ", FALSE, "none",
                          <<>>, <<>>, <<>>)
          /\ UNCHANGED <<messagesDiv, displayedMsgIds, nextId>>
        ELSE
          LET envelope == Envelope(msgId, convId, UserName, sealed.val.iv,
                                   sealed.val.ciphertext, "text")
              shown == Entry("me", UserName, "", text, msgId)
          IN
          /\ nextId' = msgId
          /\ IF out = "throw" THEN
               /\ last' = Last("encrypted", 0, SessionState,
                               "Send failed (ws). See console.", FALSE, out,
                               <<>>, <<>>, <<>>)
               /\ UNCHANGED <<messagesDiv, displayedMsgIds>>
             ELSE
               /\ Len(messagesDiv) < MaxLog
               /\ messagesDiv' = Append(messagesDiv, shown)
               /\ displayedMsgIds' = displayedMsgIds \cup {msgId}
               /\ last' = Last("encrypted", 0, SessionState, "", FALSE, out,
                               Transmitted(ws, readyState,
                                 Frame(ws, "message", convId, envelope, text, key[1].raw)),
                               <<>>, <<shown>>)
  /\ UNCHANGED <<variant, ws, readyState, subscribed, storage>>
  /\ UNCHANGED <<key, convId, meta, boot>>
  /\ UNCHANGED <<sodiumVars, ghostVars>>

NextDedupe ==
  \/ D_bootLoaded(1)
  \/ D_bootGenerated(1, 1)
  \/ D_bootSaved(1)
  \/ \E s \in Sockets : D_onopen(s)
  \/ \E s \in Sockets : \E msg \in D_frames[nextId] : D_onmessage(s, msg)
  \/ \E i \in 1..(MaxTasks + MaxSockets) : D_decrypted(i)
  \/ \E s \in Sockets : D_onclose(s)
  \/ \E c \in ConvInputs : D_joinClick(c)
  \/ \E t \in A_textInputs : D_sendClick(t)
  \/ \E i \in 1..(MaxTasks + MaxSockets) : \E n \in NonceSeeds : D_encrypted(i, n)

\* ------------------------------------------------------------------------
\* upload client (src/static/app.js, first script)

\* whether handleIncomingEnvelope(env) suspends in crypto.subtle.decrypt;
\* with key = null the call rejects at once
U_suspends(env, k) ==
  /\ env.kind # "file"
  /\ k.type = "secret"
  /\ base64ToBuf(env.iv).ok
  /\ base64ToBuf(env.ciphertext).ok

\* the element handleIncomingEnvelope(env) appends
U_render(env, k) ==
  LET text == U_decryptText(k, env.iv, env.ciphertext) IN
  IF env.kind = "file"
  THEN Entry("", env.senderId, "Encrypted file: file", env.ciphertext, 0)
  ELSE IF text.ok THEN Entry("", env.senderId, "", text.val, 0)
  ELSE Entry("", env.senderId, "[decrypt failed]", <<>>, 0)

\* U_render and U_suspends tabulated for the envelopes and keys of the model
U_table ==
  [env \in A_envs \cup A_historyEnvs, k \in A_keys |->
     [shown |-> U_render(env, k), suspends |-> U_suspends(env, k)]]

\* one turn of the message listener's loop, at envelope env with cell its
\* entry of U_table: a missing envelope raises a TypeError nothing catches,
\* an envelope that reaches decrypt suspends the listener with the rest of
\* the queue, any other is appended.  settled: the turn resumes after the
\* decrypt of env and appends it.
U_step(acc, rest, env, cell, settled) ==
  IF acc.stopped THEN acc
  ELSE IF settled
  THEN [acc EXCEPT !.handled = Append(@, Handled(env, cell.shown)),
                   !.logged = Append(@, cell.shown)]
  ELSE IF env.kind = "absent"
  THEN [acc EXCEPT !.stopped = TRUE, !.threw = TRUE,
                   !.handled = Append(@, Handled(env, NoEntry))]
  ELSE IF cell.suspends
  THEN [acc EXCEPT !.stopped = TRUE, !.queue = rest]
  ELSE [acc EXCEPT !.handled = Append(@, Handled(env, cell.shown)),
                   !.logged = Append(@, cell.shown)]

\* the message listener running over the envelopes of queue until one
\* suspends in decrypt; resumed: it starts after the decrypt of queue[1]
U_run(queue, k, resumed) ==
  LET turn[i \in 0..Len(queue)] ==
        IF i = 0
        THEN [queue |-> <<>>, handled |-> <<>>, logged |-> <<>>,
              threw |-> FALSE, stopped |-> FALSE, count |-> Len(queue)]
        ELSE U_step(turn[i - 1], SubSeq(queue, i, Len(queue)), queue[i],
                    U_table[queue[i], k], resumed /\ i = 1)
  IN turn[Len(queue)]

\* what a run of the message listener leaves: the elements appended, the
\* listener itself among the suspended handlers
U_listened(op, run, others, threw) ==
  /\ Len(messagesDiv) + Len(run.logged) <= MaxLog
  /\ messagesDiv' = messagesDiv \o run.logged
  /\ run.queue # <<>> =>
       Cardinality({j \in 1..Len(others) : others[j].kind \in {"recv", "send"}}) < MaxTasks
  /\ tasks' = IF run.queue = <<>> THEN others
              ELSE Append(others, Task("recv", 0, run.queue, <<>>, <<>>))
  /\ last' = [Last(op, 0, "", "", threw \/ run.threw, "none", <<>>, run.handled,
                    run.logged)
                EXCEPT !.count = run.count, !.rest = run.queue]

\* connectWs(): ws = new WebSocket(...); the promise returned is already
\* resolved, the socket still connecting
U_connectWs ==
  /\ NewSocket # 0
  /\ ws' = NewSocket
  /\ readyState' = [readyState EXCEPT ![NewSocket] = "CONNECTING"]

\* the boot sequence of tab t after its key is set: await connectWs(), then
\* ws.send(identify) on the connecting socket, an InvalidStateError nothing
\* catches
U_bootConnect(t) ==
  IF t = 1
  THEN /\ U_connectWs
       /\ boot' = [boot EXCEPT ![t].pc = "done", ![t].sock = NewSocket]
       /\ last' = Last("boot", 0, "", "", TRUE, "throw", <<>>, <<>>, <<>>)
  ELSE /\ boot' = [boot EXCEPT ![t].pc = "done"]
       /\ last' = Last("othertab", 0, "", "", FALSE, "none", <<>>, <<>>, <<>>)
       /\ UNCHANGED <<ws, readyState>>

\* boot: loadKeyFromLocal() has settled
U_bootLoaded(t) ==
  /\ variant = "upload"
  /\ boot[t].pc = "import"
  /\ LET loaded == A_load(boot[t].read) IN
     IF ~loaded.ok THEN
       /\ boot' = [boot EXCEPT ![t].pc = "failed"]
       /\ last' = Last("boot", 0, "", "", TRUE, "none", <<>>, <<>>, <<>>)
       /\ UNCHANGED <<ws, readyState, key, returned>>
     ELSE IF loaded.val.type = "null" THEN
       /\ boot' = [boot EXCEPT ![t].pc = "generate"]
       /\ last' = Last("boot", 0, "", "", FALSE, "none", <<>>, <<>>, <<>>)
       /\ UNCHANGED <<ws, readyState, key, returned>>
     ELSE
       /\ key' = [key EXCEPT ![t] = loaded.val]
       /\ returned' = [returned EXCEPT ![ChatKeyItem] = @ \cup {loaded.val.raw}]
       /\ U_bootConnect(t)
  /\ UNCHANGED <<variant, subscribed, storage, overwrote>>
  /\ UNCHANGED <<convId, messagesDiv, meta, displayedMsgIds, tasks, nextId>>
  /\ UNCHANGED sodiumVars

\* boot: generateKey() has settled with random outcome i; saveKeyToLocal starts
U_bootGenerated(t, i) ==
  /\ variant = "upload"
  /\ boot[t].pc = "generate"
  /\ key' = [key EXCEPT ![t] = CryptoKey(RandomKey(i))]
  /\ boot' = [boot EXCEPT ![t].pc = "export"]
  /\ last' = Last("boot", 0, "", "", FALSE, "none", <<>>, <<>>, <<>>)
  /\ UNCHANGED <<variant, ws, readyState, subscribed, storage>>
  /\ UNCHANGED <<convId, messagesDiv, meta, displayedMsgIds, tasks, nextId>>
  /\ UNCHANGED <<sodiumVars, ghostVars>>

\* boot: exportKey has settled; saveKeyToLocal stores the key
U_bootSaved(t) ==
  /\ variant = "upload"
  /\ boot[t].pc = "export"
  /\ storage' = [storage EXCEPT ![ChatKeyItem] = A_save(key[t])]
  /\ overwrote' = IF storage[ChatKeyItem] \notin {Null, storage'[ChatKeyItem]}
                  THEN overwrote \cup {ChatKeyItem} ELSE overwrote
  /\ returned' = [returned EXCEPT ![ChatKeyItem] = @ \cup {key[t].raw}]
  /\ U_bootConnect(t)
  /\ UNCHANGED <<variant, subscribed>>
  /\ UNCHANGED <<key, convId, messagesDiv, meta, displayedMsgIds, tasks, nextId>>
  /\ UNCHANGED sodiumVars

\* another tab of the origin loads the page: its loadKeyFromLocal reads chat_key
U_tabOpen(t) ==
  /\ variant = "upload"
  /\ boot[t].pc = "off"
  /\ boot' = [boot EXCEPT ![t] = [pc |-> "import", read |-> storage[ChatKeyItem],
                                  sock |-> 0,
                                  after |-> \A u \in Tabs \ {t} : boot[u].pc = "done"]]
  /\ last' = Last("othertab", 0, "", "", FALSE, "none", <<>>, <<>>, <<>>)
  /\ UNCHANGED <<variant, ws, readyState, subscribed, storage>>
  /\ UNCHANGED <<key, convId, messagesDiv, meta, displayedMsgIds, tasks, nextId>>
  /\ UNCHANGED <<sodiumVars, ghostVars>>

\* the 'open' listener of socket s: identify and subscribe go to the variable
\* ws; the first send that throws ends the listener
U_onopen(s) ==
  /\ variant = "upload"
  /\ readyState[s] = "CONNECTING"
  /\ readyState' = [readyState EXCEPT ![s] = "OPEN"]
  /\ LET out == SendOutcome(ws, readyState')
         identify == Frame(ws, "identify", <<>>, NoEnvelope, <<>>, <<>>)
         subscribe == Frame(ws, "subscribe", convId, NoEnvelope, <<>>, <<>>)
     IN
     /\ subscribed' = Subscribe(subscribed, ws, readyState', convId)
     /\ last' = Last("open", s, "", "", out = "throw", out,
                     IF out = "sent" THEN <<identify, subscribe>> ELSE <<>>,
                     <<>>, <<>>)
  /\ UNCHANGED <<variant, ws, storage>>
  /\ UNCHANGED aesVars
  /\ UNCHANGED <<sodiumVars, ghostVars>>

\* the 'message' listener of socket s, up to its first suspension; JSON.parse
\* is in no try block
U_onmessage(s, msg) ==
  /\ variant = "upload"
  /\ readyState[s] = "OPEN"
  /\ U_listened("message", U_run(A_queue(msg), key[1], FALSE), tasks, ~msg.json)
  /\ UNCHANGED <<variant, ws, readyState, subscribed, storage>>
  /\ UNCHANGED <<key, convId, meta, displayedMsgIds, boot, nextId>>
  /\ UNCHANGED <<sodiumVars, ghostVars>>

\* crypto.subtle.decrypt of suspended listener i has settled: its envelope
\* is appended and the listener runs on to its next suspension
U_decrypted(i) ==
  /\ variant = "upload"
  /\ i \in 1..Len(tasks)
  /\ tasks[i].kind = "recv"
  /\ U_listened("decrypted", U_run(tasks[i].queue, key[1], TRUE), RemoveAt(tasks, i), FALSE)
  /\ UNCHANGED <<variant, ws, readyState, subscribed, storage>>
  /\ UNCHANGED <<key, convId, meta, displayedMsgIds, boot, nextId>>
  /\ UNCHANGED <<sodiumVars, ghostVars>>

\* the connection of socket s has closed or failed: readyState becomes
\* CLOSED and the 'close' listener logs
U_onclose(s) ==
  /\ variant = "upload"
  /\ readyState[s] \in {"CONNECTING", "OPEN"}
  /\ readyState' = [readyState EXCEPT ![s] = "CLOSED"]
  /\ last' = Last("close", s, "", "", FALSE, "none", <<>>, <<>>, <<>>)
  /\ UNCHANGED <<variant, ws, subscribed, storage>>
  /\ UNCHANGED <<sodiumVars, aesVars, ghostVars>>

\* joinBtn.onclick with the conversation field holding c; after connectWs()
\* the subscribe goes to the socket that is still connecting
U_joinClick(c) ==
  /\ variant = "upload"
  /\ convId' = IF c # <<>> THEN c ELSE convId
  /\ IF ~IsOpen(ws, readyState) THEN
       /\ U_connectWs
       /\ last' = Last("join", 0, SessionState, "", TRUE, "throw", <<>>, <<>>, <<>>)
       /\ UNCHANGED <<subscribed, meta, messagesDiv>>
     ELSE
       /\ subscribed' = Subscribe(subscribed, ws, readyState, convId')
       /\ meta' = MetaInfo(convId')
       /\ messagesDiv' = <<>>
       /\ last' = Last("join", 0, SessionState, "", FALSE, "sent",
                       <<Frame(ws, "subscribe", convId', NoEnvelope, <<>>, <<>>)>>,
                       <<>>, <<>>)
       /\ UNCHANGED <<ws, readyState>>
  /\ UNCHANGED <<variant, storage>>
  /\ UNCHANGED <<key, displayedMsgIds, boot, tasks, nextId>>
  /\ UNCHANGED <<sodiumVars, ghostVars>>

\* sendBtn.onclick with the message box holding t, up to its suspension in
\* encryptText; with key = null encryptText rejects and nothing catches it
U_sendClick(t) ==
  /\ variant = "upload"
  /\ LET text == Trim(t) IN
     IF text = <<>> THEN
       /\ last' = Last("send", 0, SessionState, "", FALSE, "none", <<>>, <<>>, <<>>)
       /\ UNCHANGED tasks
     ELSE IF key[1].type # "secret" THEN
       /\ last' = Last("send", 0, SessionState, "", TRUE, "nokey", <<>>, <<>>, <<>>)
       /\ UNCHANGED tasks
     ELSE
       /\ Cardinality(CryptoTasks) < MaxTasks
       /\ tasks' = Append(tasks, Task("send", 0, <<>>, text, convId))
       /\ last' = Last("send", 0, SessionState, "", FALSE, "none", <<>>, <<>>, <<>>)
  /\ UNCHANGED <<variant, ws, readyState, subscribed, storage>>
  /\ UNCHANGED <<key, convId, messagesDiv, meta, displayedMsgIds, boot, nextId>>
  /\ UNCHANGED <<sodiumVars, ghostVars>>

\* encryptText of suspended send handler i has settled (iv drawn with random
\* outcome n): the envelope goes to ws.send, in no try block
U_encrypted(i, n) ==
  /\ variant = "upload"
  /\ i \in 1..Len(tasks)
  /\ tasks[i].kind = "send"
  /\ LET text == tasks[i].text
         sealed == U_encrypt(key[1], text, n)
         out == SendOutcome(ws, readyState)
     IN
     /\ tasks' = RemoveAt(tasks, i)
     /\ IF ~sealed.ok THEN
          last' = Last("encrypted", 0, SessionState, "", TRUE, "none", <<>>, <<>>, <<>>)
        ELSE
          LET envelope == Envelope(0, convId, UserName, sealed.val.iv,
                                   sealed.val.ciphertext, "text")
          IN last' = Last("encrypted", 0, SessionState, "", out = "throw", out,
                          Transmitted(ws, readyState,
                            Frame(ws, "message", convId, envelope, text, key[1].raw)),
                          <<>>, <<>>)
  /\ UNCHANGED <<variant, ws, readyState, subscribed, storage>>
  /\ UNCHANGED <<key, convId, messagesDiv, meta, displayedMsgIds, boot, nextId>>
  /\ UNCHANGED <<sodiumVars, ghostVars>>

\* the frames of the upload client
U_frames == A_frames(0, TRUE)

NextUpload ==
  \/ U_bootLoaded(1)
  \/ U_bootGenerated(1, 1)
  \/ U_bootSaved(1)
  \/ \E s \in Sockets : U_onopen(s)
  \/ \E s \in Sockets : \E msg \in U_frames : U_onmessage(s, msg)
  \/ \E i \in 1..MaxTasks : U_decrypted(i)
  \/ \E s \in Sockets : U_onclose(s)
  \/ \E c \in ConvInputs : U_joinClick(c)
  \/ \E t \in A_textInputs : U_sendClick(t)
  \/ \E i \in 1..MaxTasks : \E n \in NonceSeeds : U_encrypted(i, n)

\* ------------------------------------------------------------------------
\* Initial state: the page has just run its top-level script

InitCommon ==
  /\ ws = 0
  /\ readyState = [s \in Sockets |-> "NONE"]
  /\ subscribed = [s \in Sockets |-> Null]
  /\ last = Last("load", 0, "", "", FALSE, "none", <<>>, <<>>, <<>>)
  /\ roomId = Null
  /\ roomKey = Null
  /\ status = ""
  /\ key = [t \in Tabs |-> NullKey]
  /\ convId = <<114>>
  /\ messagesDiv = <<>>
  /\ meta = Meta("", <<>>)
  /\ displayedMsgIds = {}
  /\ tasks = <<>>
  /\ nextId = 0
  /\ returned = [k \in StorageItems |-> {}]
  /\ overwrote = {}

\* the sodium client: nothing is stored for the rooms, or roomkey_r holds a
\* value that is not base64 ("!")
InitSodium ==
  /\ variant = "sodium"
  /\ \E v \in {Null, <<33>>} :
       storage = [k \in StorageItems |-> IF k = RoomKeyItem(<<114>>) THEN v ELSE Null]
  /\ boot = [t \in Tabs |-> [pc |-> "off", read |-> Null, sock |-> 0, after |-> FALSE]]
  /\ InitCommon

SpecSodium == InitSodium /\ [][NextSodium]_vars

\* an AES client: tab 1 has called loadKeyFromLocal(), which read chat_key
InitAes ==
  /\ InitCommon
  /\ \E v \in A_stored :
       storage = [k \in StorageItems |-> IF k = ChatKeyItem THEN v ELSE Null]
  /\ boot = [t \in Tabs |->
              [pc |-> IF t = 1 THEN "import" ELSE "off",
               read |-> IF t = 1 THEN storage[ChatKeyItem] ELSE Null,
               sock |-> 0, after |-> FALSE]]

InitDedupe ==
  /\ variant = "dedupe"
  /\ InitAes

SpecDedupe == InitDedupe /\ [][NextDedupe]_vars

InitUpload ==
  /\ variant = "upload"
  /\ InitAes

SpecUpload == InitUpload /\ [][NextUpload]_vars

\* the key-loading steps of the three clients, with a second tab of the
\* origin running them too
NextKeys ==
  \/ \E r \in RoomInputs : \E i \in KeySeeds : S_joinClick(r, i)
  \/ \E r \in Rooms : \E i \in KeySeeds : S_otherTabJoin(r, i)
  \/ \E t \in Tabs \ {1} : U_tabOpen(t)
  \/ \E t \in Tabs : U_bootLoaded(t)
  \/ \E t \in Tabs : \E i \in KeySeeds : U_bootGenerated(t, i)
  \/ \E t \in Tabs : U_bootSaved(t)
  \/ \E t \in Tabs \ {1} : D_tabOpen(t)
  \/ \E t \in Tabs : D_bootLoaded(t)
  \/ \E t \in Tabs : \E i \in KeySeeds : D_bootGenerated(t, i)
  \/ \E t \in Tabs : D_bootSaved(t)

SpecKeys == (InitSodium \/ InitUpload \/ InitDedupe) /\ [][NextKeys]_vars

\* the receiving side of the dedupe client, with up to MaxRacing message
\* listeners suspended in decrypt at a time
NextRace ==
  \/ D_bootLoaded(1)
  \/ D_bootGenerated(1, 1)
  \/ D_bootSaved(1)
  \/ \E s \in Sockets : D_onopen(s)
  \/ \E s \in Sockets : \E msg \in D_frames[0] : D_onmessageWithin(s, msg, MaxRacing)
  \/ \E i \in 1..MaxRacing : D_decryptedWithin(i, MaxRacing)

SpecRace == InitDedupe /\ [][NextRace]_vars

\* any of the three clients
Init == InitSodium \/ InitUpload \/ InitDedupe

Next == NextSodium \/ NextUpload \/ NextDedupe

Spec == Init /\ [][Next]_vars
\* ------------------------------------------------------------------------
\* Properties

\* the raw bytes of the key the session holds (<<>> when it holds none)
CurrentKeyRaw ==
  IF variant = "sodium" THEN (IF roomKey = Null THEN <<>> ELSE roomKey) ELSE key[1].raw

\* whether envelope env decrypts under the key the session holds
Opens(env) ==
  IF variant = "sodium"
  THEN S_decrypt(S_Data(TRUE, "message", env.senderId, env.ciphertext, env.iv), roomKey).ok
  ELSE IF variant = "upload" THEN U_decryptText(key[1], env.iv, env.ciphertext).ok
  ELSE decryptText(key[1], env.iv, env.ciphertext).ok

\* the literal parts that mark an entry as undecryptable
PlaceholderMarks ==
  {"[decrypt failed - showing ciphertext]\n", "[no key loaded - showing ciphertext]\n",
   "[decrypt failed]"}

\* C1: in every variant, an incoming text envelope that fails to decrypt
\* under the key the session holds raises no uncaught error and is appended
\* as a marked placeholder that shows the envelope's raw ciphertext.
C1_PlaceholderShowsCiphertext ==
  \A j \in 1..Len(last.handled) :
    (/\ KeyLoaded
     /\ last.handled[j].env.kind = "text"
     /\ last.handled[j].shown # NoEntry
     /\ ~Opens(last.handled[j].env))
    => /\ ~last.threw
       /\ last.handled[j].shown.head \in PlaceholderMarks
       /\ last.handled[j].shown.body = last.handled[j].env.ciphertext

\* what the receiving side of the variant computes from a transmitted
\* message frame under the key the frame was sealed with
Received(f) ==
  IF variant = "sodium"
  THEN S_decrypt(S_Data(TRUE, "message", f.env.senderId, f.env.ciphertext, f.env.iv),
                 f.keyRaw)
  ELSE IF variant = "upload"
  THEN U_decryptText(CryptoKey(f.keyRaw), f.env.iv, f.env.ciphertext)
  ELSE decryptText(CryptoKey(f.keyRaw), f.env.iv, f.env.ciphertext)

\* whether the code units of s form a Unicode text: every surrogate is
\* one half of a pair
WellFormed(s) ==
  \A j \in 1..Len(s) :
    /\ IsHighSurrogate(s[j]) => (j < Len(s) /\ IsLowSurrogate(s[j + 1]))
    /\ IsLowSurrogate(s[j]) => (j > 1 /\ IsHighSurrogate(s[j - 1]))

\* C2: round trip: decrypting under K the envelope a send produced from a
\* text P under K, after its text-safe encoding and decoding, returns
\* exactly P.
C2_RoundTrip ==
  \A j \in 1..Len(last.frames) :
    (last.frames[j].env.kind = "text" /\ WellFormed(last.frames[j].plain))
    => Received(last.frames[j]) = Ok(last.frames[j].plain)

\* iv and ciphertext fields of the AES envelopes of the model, per key seed
A_sealedTable == [i \in KeySeeds |-> A_sealed(i)]

\* whether envelope env was sealed under the key of seed i
SealedUnder(env, i) ==
  IF variant = "sodium"
  THEN \E t \in Texts \ {<<>>} :
         /\ env.ciphertext = S_sealTable[t, 1, RandomKey(i)].ciphertext
         /\ env.iv = S_sealTable[t, 1, RandomKey(i)].nonce
  ELSE env.ciphertext = A_sealedTable[i].ciphertext /\ env.iv = A_sealedTable[i].iv

\* whether an entry of the message log shows a decrypted text
ShowsPlaintext(e) == e # NoEntry /\ e.head \in {"", ": "} /\ e.cls # "me"

\* C3: an envelope encrypted under a generated key K1 and handled by a
\* session holding a different key K2 ends in a decrypt error; no plaintext
\* is shown for it.
C3_WrongKeyFails ==
  \A j \in 1..Len(last.handled) : \A i \in KeySeeds :
    (/\ last.handled[j].env.kind = "text"
     /\ SealedUnder(last.handled[j].env, i)
     /\ CurrentKeyRaw # RandomKey(i))
    => /\ ~ShowsPlaintext(last.handled[j].shown)
       /\ (last.handled[j].shown # NoEntry =>
             last.handled[j].shown.head \in PlaceholderMarks)

\* a session holding the key of seed 1 has handled an envelope sealed under
\* the key of seed 2 and appended its placeholder
C3_Witness ==
  /\ CurrentKeyRaw = RandomKey(1)
  /\ \E j \in 1..Len(last.handled) :
       /\ SealedUnder(last.handled[j].env, 2)
       /\ last.handled[j].shown.head \in PlaceholderMarks

\* whether the handler that just ran took a send to its end
SendEnded ==
  \/ variant = "sodium" /\ last.op = "send"
  \/ variant # "sodium" /\ last.op = "encrypted"

\* C5: a send in a session state other than Joined transmits no frame,
\* informs the user and raises no uncaught error.
C5_SendOnlyWhenJoined ==
  (SendEnded /\ last.pre # "Joined")
  => (last.frames = <<>> /\ last.alert # "" /\ ~last.threw)

\* C6: a message sent with id X and later received again from the server
\* with the same id X has exactly one entry in the message log.
C6_EchoShownOnce ==
  \A j \in 1..Len(last.handled) :
    (variant = "dedupe" /\ last.handled[j].env.id \in 1..nextId
       /\ last.handled[j].env.id \in displayedMsgIds)
    => Cardinality({m \in 1..Len(messagesDiv) :
                      messagesDiv[m].id = last.handled[j].env.id}) = 1
\* whether the handler that just ran was stopped by a key that is missing
\* or cannot be loaded: a boot sequence or a join whose stored key does not
\* import, a send without a key
KeyFailure ==
  \/ last.op = "boot" /\ boot[1].pc = "failed"
  \/ variant = "sodium" /\ last.op = "join" /\ roomId # <<>>
       /\ storage[RoomKeyItem(roomId)] \notin {Null, <<>>}
       /\ ~S_keyFromBase64(storage[RoomKeyItem(roomId)]).ok
  \/ last.op = "send" /\ ~KeyLoaded /\ last.pre # "Disconnected" /\ last.pre # "Connecting"
       /\ last.tx = "nokey"

\* C9: every text-message frame handed to the socket carries the encryption
\* of the typed text under the loaded key, and a handler stopped by a
\* missing or unloadable key transmits nothing and tells the user.
C9_NoSilentFallback ==
  /\ \A j \in 1..Len(last.frames) :
       last.frames[j].action \in {"message", "send_message"} =>
         /\ KeyLoaded
         /\ last.frames[j].keyRaw = CurrentKeyRaw
         /\ last.frames[j].env.ciphertext # last.frames[j].plain
  /\ KeyFailure =>
       /\ last.frames = <<>>
       /\ ~last.threw
       /\ (last.alert # "" \/ meta.head = "Error: ")

\* C10: a join invoked while the socket is not open is reported to the user
\* and raises no uncaught error.
C10_JoinWhileNotOpenReported ==
  (last.op = "join" /\ last.pre \in {"Disconnected", "Connecting"})
  => (last.alert # "" /\ ~last.threw)

\* C7: load-or-create calls made in succession for the same storage key
\* return the same key bytes, and the key a first call generated is the one
\* stored.
C7_IdempotentKeyLoading ==
  /\ variant = "sodium" =>
       \A r \in Rooms :
         /\ Cardinality(returned[RoomKeyItem(r)]) <= 1
         /\ \A k \in returned[RoomKeyItem(r)] :
              storage[RoomKeyItem(r)] = S_keyToBase64(k)
  /\ variant # "sodium" =>
       \A t \in Tabs \ {1} :
         (boot[t].pc = "done" /\ boot[t].after) =>
           /\ key[t].raw = key[1].raw
           /\ storage[ChatKeyItem] = A_save(key[1])

\* two tabs have loaded the key one after the other, the first on an empty
\* store
C7_Witness ==
  /\ variant # "sodium"
  /\ boot[1].read = Null
  /\ boot[2].pc = "done"
  /\ boot[2].after
  /\ key[2].type = "secret"

\* C8: once a key is stored under a storage key, no load-or-create step of
\* any tab replaces it.
C8_NeverOverwritten == overwrote = {}
\* the condition under which sendBtn.onclick of the sodium client goes on to
\* encrypt and transmit
S_acceptsSend == IsOpen(ws, readyState) /\ roomKey # Null

\* C11: connect moves the session to Connecting and the socket's open to
\* Connected(unjoined), a close of the socket moves it to Disconnected; after
\* a close followed by a new connect, the session that had joined a room on
\* the earlier connection is not Joined and accepts no send until join is
\* invoked on the new connection.
C11_ReconnectIsUnjoined ==
  variant = "sodium" =>
    /\ (last.op = "connect" /\ last.alert = "") => SessionState = "Connecting"
    /\ (last.op = "close" /\ last.sock = ws) => SessionState = "Disconnected"
    /\ (last.op = "open" /\ last.sock = ws) => SessionState = "Connected"
    /\ (/\ last.op = "open"
        /\ last.sock = ws
        /\ \E s \in Sockets \ {ws} :
             readyState[s] = "CLOSED" /\ subscribed[s] # Null /\ subscribed[s] = roomId)
       => ~S_acceptsSend
\* whether a frame's envelope lacks what a message needs: the envelope
\* itself, its ciphertext or its nonce/iv
Incomplete(env) ==
  env.kind = "absent" \/ env.ciphertext = Undefined \/ env.iv = Undefined

\* C12: a received frame that is not valid JSON, or a message frame whose
\* envelope or fields are missing, is dropped silently: its handler raises
\* no uncaught error, appends nothing to the message log and shows no alert.
C12_MalformedDroppedSilently ==
  (last.op = "message" /\ \A j \in 1..Len(last.handled) : Incomplete(last.handled[j].env))
  => (last.logged = <<>> /\ ~last.threw /\ last.alert = "")

\* whether h records an envelope that failed to decrypt and got its placeholder
FailedToDecrypt(h) ==
  h.env.kind = "text" /\ h.shown # NoEntry /\ h.shown.head \in PlaceholderMarks

\* C13: a run of a message listener in which an envelope fails to decrypt
\* raises no uncaught error, leaves the socket, its state, the loaded key and
\* the active conversation as they were, and loses none of the envelopes
\* that came with or after the failing one: each is handled or awaits its
\* decrypt.
C13_DecryptFailureIsLocal ==
  [][(/\ last'.op \in {"message", "decrypted"}
      /\ \E j \in 1..Len(last'.handled) : FailedToDecrypt(last'.handled[j]))
     => /\ ~last'.threw
        /\ ws' = ws
        /\ readyState' = readyState
        /\ subscribed' = subscribed
        /\ key' = key
        /\ roomKey' = roomKey
        /\ convId' = convId
        /\ roomId' = roomId
        /\ Len(last'.handled) + Len(last'.rest) = last'.count
        /\ last'.rest # <<>> =>
             (tasks' # <<>> /\ tasks'[Len(tasks')].queue = last'.rest)]_vars

\* a history reply whose first envelope failed to decrypt has been handled
\* on an open socket and its second envelope awaits its decrypt
C13_Witness ==
  /\ last.op = "message"
  /\ last.count = 2
  /\ FailedToDecrypt(last.handled[1])
  /\ last.rest # <<>>
  /\ IsOpen(ws, readyState)
  /\ KeyLoaded
\* message listeners suspended in decrypt
Suspended == {i \in 1..Len(tasks) : tasks[i].kind = "recv"}

\* C14: envelopes reach the message log in arrival order; in particular no
\* envelope of a frame that has just arrived is appended while an envelope
\* of an earlier frame still awaits its decrypt.
C14_ArrivalOrder ==
  [][(Suspended # {} /\ last'.op = "message") => last'.logged = <<>>]_vars

\* C17: in the dedupe client no two entries of the message log carry the
\* same envelope id, whatever the interleaving of the message listeners; in
\* particular no envelope id is shown decrypted twice.
C17_IdRenderedOnce ==
  variant = "dedupe" =>
    \A m \in 1..Len(messagesDiv) : \A n \in 1..Len(messagesDiv) :
      (m < n /\ messagesDiv[m].id # 0 /\ messagesDiv[m].head = "" /\ messagesDiv[n].head = "")
      => messagesDiv[m].id # messagesDiv[n].id
\* C15: no received message envelope is left without a log entry: when a
\* listener ends the handling of an envelope without appending a line, the
\* message log shows an entry for that envelope's id.
C15_ReceivedEnvelopeGetsEntry ==
  \A j \in 1..Len(last.handled) :
    (last.handled[j].env.kind = "text" /\ last.handled[j].shown = NoEntry)
    => \E m \in 1..Len(messagesDiv) :
         messagesDiv[m].id # 0 /\ messagesDiv[m].id = last.handled[j].env.id

\* whether every room key in storage is one from_base64 accepts
StoredKeysImport ==
  \A r \in Rooms :
    storage[RoomKeyItem(r)] = Null \/ S_keyFromBase64(storage[RoomKeyItem(r)]).ok

\* C16: a join(c) completed from Connected or Joined leaves the session
\* joined to c with the key stored for c, and every message is encrypted
\* under the key stored for the conversation it is addressed to.
C16_JoinedKeyIsStoredKey ==
  /\ (variant = "sodium" /\ StoredKeysImport) =>
       /\ (/\ last.op = "join"
           /\ last.pre \in {"Connected", "Joined"}
           /\ last.alert = "")
          => /\ ~last.threw
             /\ subscribed[ws] = roomId
             /\ roomKey # Null
             /\ storage[RoomKeyItem(roomId)] = S_keyToBase64(roomKey)
       /\ \A j \in 1..Len(last.frames) :
            last.frames[j].action = "send_message" =>
              /\ last.frames[j].conv \in Rooms
              /\ storage[RoomKeyItem(last.frames[j].conv)]
                   = S_keyToBase64(last.frames[j].keyRaw)
  /\ variant # "sodium" =>
       \A j \in 1..Len(last.frames) :
         last.frames[j].action = "message" =>
           storage[ChatKeyItem] = A_save(CryptoKey(last.frames[j].keyRaw))

\* C18: in the dedupe client a join or boot sequence that awaits connectWs()
\* does not stay pending once its socket has closed without opening: by then
\* it has been settled and the failure reported.
C18_JoinSettles ==
  variant = "dedupe" =>
    /\ \A i \in 1..Len(tasks) :
         tasks[i].kind = "join" => readyState[tasks[i].sock] # "CLOSED"
    /\ boot[1].pc = "connect" => readyState[boot[1].sock] # "CLOSED"

\* C19: in the dedupe client a message is appended as the user's own only
\* when its frame was transmitted on an open socket, addressed to the
\* conversation that was active when send was invoked.
C19_OwnMessageWasSent ==
  [][(variant = "dedupe" /\ last'.op = "encrypted" /\ last'.logged # <<>>)
     => /\ Len(last'.frames) = 1
        /\ \E i \in SendTasks :
             /\ tasks' = RemoveAt(tasks, i)
             /\ last'.frames[1].conv = tasks[i].conv]_vars

\* C20: in the dedupe client the set of displayed envelope ids equals the
\* set of ids of the entries currently in the message log.
C20_DisplayedIdsMatchLog ==
  variant = "dedupe" =>
    displayedMsgIds = {messagesDiv[m].id : m \in 1..Len(messagesDiv)} \ {0}

\* C21: in the sodium client, after every step, #status reads "connected"
\* exactly when the socket held in ws is open, and an open, message, close
\* or error event of a socket that a later connect has superseded neither
\* changes #status nor sends a frame
C21_StatusTracksCurrentSocket ==
  [][variant = "sodium" =>
       /\ (status' = "connected") <=> IsOpen(ws', readyState')
       /\ (last'.op \in {"open", "message", "close"} /\ last'.sock # ws')
          => (status' = status /\ last'.frames = <<>>)]_vars

====
